---- MODULE Spec2Model ----
(***************************************************************************)
(* rp2040-rom (src/lib.rs): calling a function of the RP2040 boot ROM.     *)
(*                                                                         *)
(* The crate reads two halfwords of the ROM at fixed offsets (the function *)
(* table pointer and the pointer to the ROM's lookup helper), packs a two  *)
(* character mnemonic into a key, calls the helper with (table, key) and,  *)
(* in reset_usb_boot, calls the address the helper returned with the two   *)
(* mask arguments and then loops for ever.                                 *)
(*                                                                         *)
(* The model runs the code statement by statement (pc) against a simulated *)
(* ROM image.  trace is the sequence of events of the call chain in        *)
(* progress: key packing, memory reads, foreign calls and their returns.   *)
(***************************************************************************)
EXTENDS Integers, Sequences, FiniteSets, TLC

-----------------------------------------------------------------------------
(* Bounds of the model *)

\* The longest function table of a simulated ROM image (entries before the
\* terminator).
MaxEntries == 2

\* How many times the harness calls rom_func_lookup directly before it
\* (optionally) calls reset_usb_boot.
MaxLookups == 3

-----------------------------------------------------------------------------
(* Program constants *)

\* const BOOTROM_FUNC_TABLE_OFFSET: u16 = 0x14
BOOTROM_FUNC_TABLE_OFFSET == 20

\* const BOOTROM_TABLE_LOOKUP_OFFSET: u16 = 0x18
BOOTROM_TABLE_LOOKUP_OFFSET == 24

\* const ROM_FUNC_RESET_USB_BOOT: (u8, u8) = (b'U', b'B')
ROM_FUNC_RESET_USB_BOOT == <<85, 66>>

-----------------------------------------------------------------------------
(* Machine arithmetic *)

\* A 32-bit word is the pair <<high halfword, low halfword>>; a 16-bit
\* halfword and an 8-bit byte are numbers.

RECURSIVE Pow2(_)
Pow2(n) == IF n = 0 THEN 1 ELSE 2 * Pow2(n - 1)

Zero32 == <<0, 0>>

\* u8 -> u32 (`c as u32`), zero-extended
ZeroExtend8(c) == <<0, c % Pow2(8)>>

\* u16 -> usize (`v as usize`; the target's usize is 32 bits wide),
\* zero-extended
ZeroExtend16(v) == <<0, v % Pow2(16)>>

\* i16 -> usize, sign-extended: what `value as i16 as usize` would give
SignExtend16(v) ==
    <<IF v % Pow2(16) >= Pow2(15) THEN Pow2(16) - 1 ELSE 0, v % Pow2(16)>>

\* u32 `w << n` (n < 15): the bits shifted out of bit 31 are lost
Shl32(w, n) ==
    <<(w[1] * Pow2(n) + ((w[2] * Pow2(n)) \div Pow2(16))) % Pow2(16),
      (w[2] * Pow2(n)) % Pow2(16)>>

\* `a | b`, bit by bit
RECURSIVE BitOr(_, _)
BitOr(a, b) ==
    IF a = 0 THEN b
    ELSE IF b = 0 THEN a
    ELSE (IF a % 2 = 1 \/ b % 2 = 1 THEN 1 ELSE 0)
         + 2 * BitOr(a \div 2, b \div 2)

\* u32 `a | b`
BitOr32(a, b) == <<BitOr(a[1], b[1]), BitOr(a[2], b[2])>>

\* pointer + n bytes, wrapping at 32 bits
Add32(w, n) ==
    <<(w[1] + ((w[2] + n) \div Pow2(16))) % Pow2(16), (w[2] + n) % Pow2(16)>>

-----------------------------------------------------------------------------
(* The simulated ROM image *)

\* Sample mnemonics: 'U','B' and its swap 'B','U', and the bytes 0 and 0xFF
\* in either place
Mnemonics == { <<85, 66>>, <<66, 85>>, <<0, 0>>, <<255, 255>>,
               <<0, 255>>, <<255, 0>> }

\* Sample mask arguments of reset_usb_boot, of the words 0, 1, bit 25
\* (0x02000000) and 0xFFFFFFFF
MaskPairs == { << <<0, 0>>, <<0, 0>> >>,
               << <<512, 0>>, <<0, 1>> >>,
               << <<65535, 65535>>, <<0, 0>> >> }

\* Where an image puts its function table and its lookup helper: table at
\* address 0 (a stored pointer of 0), at 0x7A, and at 0xFFF0 (bit 15 set);
\* helper at 0x35 or 0xFFFF.
Placements == { <<0, 53>>, <<122, 53>>, <<65520, 65535>> }

\* The keys of the table entries: 'U','B' (0x4255) and 'B','U' (0x5542)
EntryCodes == {16981, 21826}

\* The routine addresses of the table entries: 0x2591 and 0xFFFF
EntryPtrs == {9617, 65535}

Entries == [code : EntryCodes, ptr : EntryPtrs]

Tables == UNION { [1..n -> Entries] : n \in 0..MaxEntries }

\* table and helper are the halfwords stored at the two fixed offsets
Images == { [table |-> p[1], helper |-> p[2], entries |-> t] :
            p \in Placements, t \in Tables }

\* The addresses of the halfwords of the image's function table, terminator
\* included.
TableRange(img) ==
    { <<0, img.table + 2 * i>> : i \in 0..(2 * Len(img.entries)) }

\* The memory of an image: the two pointers at their fixed offsets, and the
\* table: (code, pointer) halfword pairs ended by a zero code.
Layout(img) ==
    [ad \in {<<0, BOOTROM_FUNC_TABLE_OFFSET>>, <<0, BOOTROM_TABLE_LOOKUP_OFFSET>>}
            \cup TableRange(img) |->
        IF ad \in TableRange(img)
        THEN LET i == (ad[2] - img.table) \div 2
             IN  IF i = 2 * Len(img.entries) THEN 0
                 ELSE IF i % 2 = 0 THEN img.entries[(i \div 2) + 1].code
                 ELSE img.entries[(i \div 2) + 1].ptr
        ELSE IF ad[2] = BOOTROM_FUNC_TABLE_OFFSET THEN img.table
        ELSE img.helper]

\* A 16-bit load.  Halfwords the image does not list read as zero.
Read16(m, ad) == IF ad \in DOMAIN m THEN m[ad] ELSE 0

\* What the image's table holds for a key: the pointer of the first entry
\* with that code, 0 when there is none.
RECURSIVE FirstMatch(_, _)
FirstMatch(es, k) ==
    IF es = <<>> THEN 0
    ELSE IF Head(es).code = k THEN Head(es).ptr
    ELSE FirstMatch(Tail(es), k)

\* The ROM's lookup helper, as the boot ROM implements it: walk the table
\* from `table`, stop with 0 at a zero code, return the pointer of the
\* entry whose code is `code`.  reads are the addresses it loads from.
RECURSIVE rom_table_lookup(_, _, _)
rom_table_lookup(m, table, code) ==
    LET c == Read16(m, table)
    IN  IF c = 0 THEN [result |-> Zero32, reads |-> <<table>>]
        ELSE LET p == Read16(m, Add32(table, 2))
             IN  IF ZeroExtend16(c) = code
                 THEN [result |-> ZeroExtend16(p),
                       reads |-> <<table, Add32(table, 2)>>]
                 ELSE LET r == rom_table_lookup(m, Add32(table, 4), code)
                      IN  [result |-> r.result,
                           reads |-> <<table, Add32(table, 2)>> \o r.reads]

-----------------------------------------------------------------------------
(* The crate's functions *)

rom_table_code_Swapped(c1, c2) ==
    BitOr32(ZeroExtend8(c2), Shl32(ZeroExtend8(c1), 8))

\* (c1 as u32) | ((c2 as u32) << 8)
rom_table_code(c1, c2) == BitOr32(ZeroExtend8(c1), Shl32(ZeroExtend8(c2), 8))

\* let addr_val = rom_address as usize: the address rom_hword_as_ptr loads
\* from
hword_address(rom_address) == ZeroExtend16(rom_address)

rom_hword_as_ptr_SignExtends(m, rom_address) ==
    SignExtend16(Read16(m, hword_address(rom_address)))

\* let value = *(addr_val as *const u16); value as usize as *mut c_void
rom_hword_as_ptr(m, rom_address) ==
    ZeroExtend16(Read16(m, hword_address(rom_address)))

-----------------------------------------------------------------------------
(* State *)

VARIABLES
    rom,          \* the simulated ROM image the program runs against
    mem,          \* memory: halfword address -> halfword
    pc,           \* the statement the program is at
    entry,        \* the function the harness called: none, rom_func_lookup, reset_usb_boot
    masks,        \* reset_usb_boot's (usb_activity_gpio_pin_mask, disable_interface_mask)
    code,         \* rom_func_lookup's argument: (c1, c2)
    key,          \* rom_func_lookup's local `code` after packing
    func_table,   \* rom_func_lookup's local func_table
    lookup_addr,  \* rom_func_lookup's local lookup_addr
    ret,          \* the value the lookup helper returned
    func_ptr,     \* reset_usb_boot's local func_ptr
    trace,        \* the events of the call chain in progress
    seen,         \* every (mnemonic, address) a direct lookup has returned
    nlookups      \* the number of direct lookups started

vars == <<rom, mem, pc, entry, masks, code, key, func_table, lookup_addr,
          ret, func_ptr, trace, seen, nlookups>>

Ev(k, ad, x, y) == [ev |-> k, addr |-> ad, a |-> x, b |-> y]

Init ==
    /\ rom \in Images
    /\ mem = Layout(rom)
    /\ pc = "idle"
    /\ entry = "none"
    /\ masks = <<Zero32, Zero32>>
    /\ code = <<0, 0>>
    /\ key = Zero32
    /\ func_table = Zero32
    /\ lookup_addr = Zero32
    /\ ret = Zero32
    /\ func_ptr = Zero32
    /\ trace = <<>>
    /\ seen = {}
    /\ nlookups = 0

-----------------------------------------------------------------------------
(* The harness *)

\* A direct call of rom_func_lookup(c)
StartLookup ==
    /\ pc = "idle"
    /\ nlookups < MaxLookups
    /\ \E c \in Mnemonics : code' = c
    /\ entry' = "rom_func_lookup"
    /\ nlookups' = nlookups + 1
    /\ trace' = <<>>
    /\ pc' = "pack"
    /\ UNCHANGED <<rom, mem, masks, key, func_table, lookup_addr, ret,
                   func_ptr, seen>>

\* A call of reset_usb_boot(m1, m2), which calls
\* rom_func_lookup(ROM_FUNC_RESET_USB_BOOT)
StartReset ==
    /\ pc = "idle"
    /\ \E m \in MaskPairs : masks' = m
    /\ entry' = "reset_usb_boot"
    /\ code' = ROM_FUNC_RESET_USB_BOOT
    /\ trace' = <<>>
    /\ pc' = "pack"
    /\ UNCHANGED <<rom, mem, key, func_table, lookup_addr, ret, func_ptr,
                   seen, nlookups>>

-----------------------------------------------------------------------------
(* rom_func_lookup *)

\* let (c1, c2) = code; let code = Self::rom_table_code(c1, c2);
PackKey ==
    /\ pc = "pack"
    /\ key' = rom_table_code(code[1], code[2])
    /\ trace' = Append(trace, Ev("pack", Zero32, key', Zero32))
    /\ pc' = "read_table"
    /\ UNCHANGED <<rom, mem, entry, masks, code, func_table, lookup_addr,
                   ret, func_ptr, seen, nlookups>>

ReadTable_WrongOffset ==
    /\ pc = "read_table"
    /\ func_table' = rom_hword_as_ptr(mem, BOOTROM_TABLE_LOOKUP_OFFSET)
    /\ trace' = Append(trace,
            Ev("read", hword_address(BOOTROM_TABLE_LOOKUP_OFFSET), func_table', Zero32))
    /\ pc' = "read_helper"
    /\ UNCHANGED <<rom, mem, entry, masks, code, key, lookup_addr, ret,
                   func_ptr, seen, nlookups>>

ReadTable_Consumes ==
    /\ pc = "read_table"
    /\ func_table' = rom_hword_as_ptr(mem, BOOTROM_FUNC_TABLE_OFFSET)
    /\ trace' = Append(trace,
            Ev("read", hword_address(BOOTROM_FUNC_TABLE_OFFSET), func_table', Zero32))
    /\ mem' = [mem EXCEPT ![hword_address(BOOTROM_FUNC_TABLE_OFFSET)] = 0]
    /\ pc' = "read_helper"
    /\ UNCHANGED <<rom, entry, masks, code, key, lookup_addr, ret,
                   func_ptr, seen, nlookups>>

ReadTable_SkipsHelperRead ==
    /\ pc = "read_table"
    /\ func_table' = rom_hword_as_ptr(mem, BOOTROM_FUNC_TABLE_OFFSET)
    /\ trace' = Append(trace,
            Ev("read", hword_address(BOOTROM_FUNC_TABLE_OFFSET), func_table', Zero32))
    /\ pc' = "call_helper"
    /\ UNCHANGED <<rom, mem, entry, masks, code, key, lookup_addr, ret,
                   func_ptr, seen, nlookups>>

\* let func_table_addr = Self::rom_hword_as_ptr(BOOTROM_FUNC_TABLE_OFFSET);
\* let func_table = func_table_addr as *const u16;
ReadTable ==
    /\ pc = "read_table"
    /\ func_table' = rom_hword_as_ptr(mem, BOOTROM_FUNC_TABLE_OFFSET)
    /\ trace' = Append(trace,
            Ev("read", hword_address(BOOTROM_FUNC_TABLE_OFFSET), func_table', Zero32))
    /\ pc' = "read_helper"
    /\ UNCHANGED <<rom, mem, entry, masks, code, key, lookup_addr, ret,
                   func_ptr, seen, nlookups>>

ReadHelper_Derived ==
    /\ pc = "read_helper"
    /\ lookup_addr' = rom_hword_as_ptr(mem, Add32(func_table, 4)[2])
    /\ trace' = Append(trace,
            Ev("read", hword_address(Add32(func_table, 4)[2]), lookup_addr', Zero32))
    /\ pc' = "call_helper"
    /\ UNCHANGED <<rom, mem, entry, masks, code, key, func_table, ret,
                   func_ptr, seen, nlookups>>

\* let lookup_addr = Self::rom_hword_as_ptr(BOOTROM_TABLE_LOOKUP_OFFSET);
\* let rom_table_lookup: RomTableLookupFn = core::mem::transmute(lookup_addr);
ReadHelper ==
    /\ pc = "read_helper"
    /\ lookup_addr' = rom_hword_as_ptr(mem, BOOTROM_TABLE_LOOKUP_OFFSET)
    /\ trace' = Append(trace,
            Ev("read", hword_address(BOOTROM_TABLE_LOOKUP_OFFSET), lookup_addr', Zero32))
    /\ pc' = "call_helper"
    /\ UNCHANGED <<rom, mem, entry, masks, code, key, func_table, ret,
                   func_ptr, seen, nlookups>>

CallHelper_SwappedArgs ==
    /\ pc = "call_helper"
    /\ trace' = Append(trace, Ev("call_helper", lookup_addr, key, func_table))
    /\ pc' = "in_helper"
    /\ UNCHANGED <<rom, mem, entry, masks, code, key, func_table,
                   lookup_addr, ret, func_ptr, seen, nlookups>>

\* rom_table_lookup(func_table, code): control passes to the address read
\* at the helper offset
CallHelper ==
    /\ pc = "call_helper"
    /\ trace' = Append(trace, Ev("call_helper", lookup_addr, func_table, key))
    /\ pc' = "in_helper"
    /\ UNCHANGED <<rom, mem, entry, masks, code, key, func_table,
                   lookup_addr, ret, func_ptr, seen, nlookups>>

RomReads(addrs) == [i \in 1..Len(addrs) |-> Ev("romread", addrs[i], Zero32, Zero32)]

\* The ROM: the helper runs on the arguments it was passed and returns.
\* An address that is not the helper's is no lookup helper: calling it
\* returns anything.
HelperReturns ==
    /\ pc = "in_helper"
    /\ LET call == trace[Len(trace)]
           walk == rom_table_lookup(mem, call.a, call.b)
       IN  \E r \in (IF call.addr = ZeroExtend16(rom.helper)
                     THEN {walk.result}
                     ELSE {ZeroExtend16(p) : p \in {0} \cup EntryPtrs}) :
             /\ ret' = r
             /\ trace' = trace
                    \o (IF call.addr = ZeroExtend16(rom.helper)
                        THEN RomReads(walk.reads)
                        ELSE <<>>)
                    \o <<Ev("ret_helper", call.addr, r, Zero32)>>
    /\ pc' = "lookup_ret"
    /\ UNCHANGED <<rom, mem, entry, masks, code, key, func_table,
                   lookup_addr, func_ptr, seen, nlookups>>

\* rom_func_lookup returns the helper's value to the harness, which records
\* it in seen; the call's argument and locals are gone
LookupReturnToHarness ==
    /\ pc = "lookup_ret"
    /\ entry = "rom_func_lookup"
    /\ seen' = seen \cup {<<code, ret>>}
    /\ key' = Zero32
    /\ func_table' = Zero32
    /\ lookup_addr' = Zero32
    /\ ret' = Zero32
    /\ code' = <<0, 0>>
    /\ trace' = <<>>
    /\ pc' = "idle"
    /\ UNCHANGED <<rom, mem, entry, masks, func_ptr, nlookups>>

-----------------------------------------------------------------------------
(* reset_usb_boot *)

\* let func_ptr = Self::rom_func_lookup(ROM_FUNC_RESET_USB_BOOT);
\* let func: RomResetUsbBootFn = core::mem::transmute(func_ptr);
LookupReturnToReset ==
    /\ pc = "lookup_ret"
    /\ entry = "reset_usb_boot"
    /\ func_ptr' = ret
    /\ pc' = "call_target"
    /\ UNCHANGED <<rom, mem, entry, masks, code, key, func_table,
                   lookup_addr, ret, trace, seen, nlookups>>

CallTarget_SwappedArgs ==
    /\ pc = "call_target"
    /\ trace' = Append(trace, Ev("call_target", func_ptr, masks[2], masks[1]))
    /\ pc' = "in_target"
    /\ UNCHANGED <<rom, mem, entry, masks, code, key, func_table,
                   lookup_addr, ret, func_ptr, seen, nlookups>>

CallTarget_NullChecked ==
    /\ pc = "call_target"
    /\ IF func_ptr = Zero32
       THEN /\ trace' = trace
            /\ pc' = "loop"
       ELSE /\ trace' = Append(trace,
                    Ev("call_target", func_ptr, masks[1], masks[2]))
            /\ pc' = "in_target"
    /\ UNCHANGED <<rom, mem, entry, masks, code, key, func_table,
                   lookup_addr, ret, func_ptr, seen, nlookups>>

\* func(usb_activity_gpio_pin_mask, disable_interface_mask);
CallTarget ==
    /\ pc = "call_target"
    /\ trace' = Append(trace, Ev("call_target", func_ptr, masks[1], masks[2]))
    /\ pc' = "in_target"
    /\ UNCHANGED <<rom, mem, entry, masks, code, key, func_table,
                   lookup_addr, ret, func_ptr, seen, nlookups>>

\* The ROM: the routine resets the device; the program is over.
TargetResets ==
    /\ pc = "in_target"
    /\ pc' = "reset"
    /\ UNCHANGED <<rom, mem, entry, masks, code, key, func_table,
                   lookup_addr, ret, func_ptr, trace, seen, nlookups>>

\* The ROM: whatever is at the address returns normally.
TargetReturns ==
    /\ pc = "in_target"
    /\ trace' = Append(trace, Ev("ret_target", func_ptr, Zero32, Zero32))
    /\ pc' = "after_call"
    /\ UNCHANGED <<rom, mem, entry, masks, code, key, func_table,
                   lookup_addr, ret, func_ptr, seen, nlookups>>

\* The address called is no routine of the ROM (the not-found sentinel):
\* the processor faults and never comes back to the program.
TargetFaults ==
    /\ pc = "in_target"
    /\ func_ptr \notin { ZeroExtend16(rom.entries[i].ptr) :
                           i \in 1..Len(rom.entries) }
    /\ pc' = "fault"
    /\ UNCHANGED <<rom, mem, entry, masks, code, key, func_table,
                   lookup_addr, ret, func_ptr, trace, seen, nlookups>>

Loop_Returns ==
    /\ pc = "after_call"
    /\ pc' = "idle"
    /\ UNCHANGED <<rom, mem, entry, masks, code, key, func_table,
                   lookup_addr, ret, func_ptr, trace, seen, nlookups>>

\* loop {}
Loop ==
    /\ pc \in {"after_call", "loop"}
    /\ pc' = "loop"
    /\ UNCHANGED <<rom, mem, entry, masks, code, key, func_table,
                   lookup_addr, ret, func_ptr, trace, seen, nlookups>>

-----------------------------------------------------------------------------

Next ==
    \/ StartLookup
    \/ StartReset
    \/ PackKey
    \/ ReadTable
    \/ ReadHelper
    \/ CallHelper
    \/ HelperReturns
    \/ LookupReturnToHarness
    \/ LookupReturnToReset
    \/ CallTarget
    \/ TargetResets
    \/ TargetReturns
    \/ TargetFaults
    \/ Loop

Spec == Init /\ [][Next]_vars

-----------------------------------------------------------------------------
(* Properties *)

\* The events of the call chain in progress of one kind
EventsOf(k) == SelectSeq(trace, LAMBDA e : e.ev = k)

\* The events the crate's own code produces: all but the helper's loads
SysEvents == SelectSeq(trace, LAMBDA e : e.ev # "romread")

Kinds(es) == [i \in 1..Len(es) |-> es[i].ev]

IsPrefix(s, t) == Len(s) <= Len(t) /\ \A i \in 1..Len(s) : s[i] = t[i]

\* The statements of reset_usb_boot from the foreign call on
AfterTargetCall == {"in_target", "after_call", "loop", "reset", "fault"}

\* C1: the packed key of a mnemonic (c1, c2) is c1 | (c2 << 8) as a 32-bit
\* value: c1 in bits 0-7, c2 in bits 8-15, bits 16-31 zero; ('U','B') packs
\* to 0x4255 and not to 0x5542.
C1_KeyPacking ==
    pc \notin {"idle", "pack"} =>
        /\ key = <<0, code[1] + 256 * code[2]>>
        /\ key[1] = 0
        /\ key[2] % 256 = code[1]
        /\ key[2] \div 256 = code[2]
        /\ code = <<85, 66>> => (key = <<0, 16981>> /\ key # <<0, 21826>>)

C1_Witness ==
    /\ pc = "read_table"
    /\ code = <<85, 66>>
    /\ key = <<0, 16981>>

\* C2: reset_usb_boot never returns to its caller, whatever the masks and
\* whether the ROM routine resets the device or returns normally: once it
\* is called, control is never back in the caller.
C2_NeverReturns ==
    entry = "reset_usb_boot" => pc # "idle"

C2_Witness ==
    /\ entry = "reset_usb_boot"
    /\ pc = "loop"
    /\ Len(EventsOf("ret_target")) = 1

\* C3: reset_usb_boot invokes the address the lookup returned for ('U','B')
\* (key 0x4255) exactly once, with the GPIO activity pin mask first and the
\* interface-disable mask second, both unchanged; the helper is never asked
\* for another key.
C3_TargetCall ==
    entry = "reset_usb_boot" =>
        LET calls == EventsOf("call_target")
            asked == EventsOf("call_helper")
            rets  == EventsOf("ret_helper")
        IN  /\ \A i \in 1..Len(asked) : asked[i].b = <<0, 16981>>
            /\ Len(calls) = (IF pc \in AfterTargetCall THEN 1 ELSE 0)
            /\ pc \in AfterTargetCall =>
                /\ Len(rets) = 1
                /\ calls[1].addr = rets[1].a
                /\ calls[1].addr = <<0, FirstMatch(rom.entries, 16981)>>
                /\ calls[1].a = masks[1]
                /\ calls[1].b = masks[2]

C3_Witness ==
    /\ entry = "reset_usb_boot"
    /\ pc = "reset"
    /\ masks = << <<512, 0>>, <<0, 1>> >>
    /\ EventsOf("call_target") = << Ev("call_target", <<0, 9617>>, <<512, 0>>, <<0, 1>>) >>

\* C4: rom_func_lookup returns the address the helper produces for (table
\* base read through offset 0x14, packed key), unchanged: with a helper that
\* performs the table lookup, every mnemonic resolves to what the image's
\* table holds for its key, so ('U','B') resolves to the stub address X the
\* table maps 0x4255 to.
C4_LookupResult ==
    /\ \A p \in seen :
          p[2] = <<0, FirstMatch(rom.entries, p[1][1] + 256 * p[1][2])>>
    /\ pc = "lookup_ret" =>
          LET calls == EventsOf("call_helper")
              rets  == EventsOf("ret_helper")
          IN  /\ Len(calls) = 1
              /\ Len(rets) = 1
              /\ calls[1].a = <<0, mem[<<0, 20>>]>>
              /\ calls[1].b = <<0, code[1] + 256 * code[2]>>
              /\ ret = rets[1].a
              /\ ret = <<0, FirstMatch(rom.entries, code[1] + 256 * code[2])>>

C4_Witness ==
    /\ pc = "idle"
    /\ rom.entries = << [code |-> 21826, ptr |-> 65535],
                        [code |-> 16981, ptr |-> 9617] >>
    /\ << <<85, 66>>, <<0, 9617>> >> \in seen

\* C5: against a table with no entry for key 0x0000, the lookup of the
\* mnemonic (0, 0) returns the not-found sentinel, zero, and every load of
\* the lookup other than the two fixed-offset pointer loads is inside the
\* table.
C5_NotFound ==
    /\ \A p \in seen : p[1] = <<0, 0>> => p[2] = Zero32
    /\ ( /\ pc = "lookup_ret"
         /\ code = <<0, 0>>
         /\ \A i \in 1..Len(rom.entries) : rom.entries[i].code # 0 )
       => /\ ret = Zero32
          /\ \A i \in 1..Len(trace) :
                /\ trace[i].ev = "romread" => trace[i].addr \in TableRange(rom)
                /\ trace[i].ev = "read" => trace[i].addr \in {<<0, 20>>, <<0, 24>>}

C5_Witness ==
    /\ pc = "lookup_ret"
    /\ code = <<0, 0>>
    /\ Len(rom.entries) = 2
    /\ ret = Zero32
    /\ Len(EventsOf("romread")) = 5

\* C6: lookup is idempotent: against the immutable ROM image, every lookup
\* of the same mnemonic returns the same address, however many lookups of
\* this or other mnemonics came before, and no lookup changes the memory a
\* later lookup reads.
C6_Idempotent ==
    /\ \A p, q \in seen : p[1] = q[1] => p[2] = q[2]
    /\ mem = Layout(rom)

C6_Witness ==
    /\ pc = "idle"
    /\ nlookups = 3
    /\ Cardinality(seen) = 2
    /\ << <<85, 66>>, <<0, 9617>> >> \in seen

\* C7: in every lookup the table pointer is loaded from offset 0x14 and the
\* helper pointer from offset 0x18, whatever the mnemonic, the masks, the
\* values loaded and the earlier invocations, and the crate's own code loads
\* from no other address.
C7_FixedOffsets ==
    LET rd == EventsOf("read")
    IN  /\ IsPrefix([i \in 1..Len(rd) |-> rd[i].addr], << <<0, 20>>, <<0, 24>> >>)
        /\ pc \notin {"idle", "pack", "read_table"} =>
              /\ Len(rd) >= 1
              /\ func_table = rd[1].a
        /\ pc \notin {"idle", "pack", "read_table", "read_helper"} =>
              /\ Len(rd) = 2
              /\ lookup_addr = rd[2].a

C7_Witness ==
    /\ pc = "call_helper"
    /\ nlookups = 2
    /\ code = <<255, 255>>
    /\ Len(EventsOf("read")) = 2

\* C8: the not-found sentinel is never checked: the address the helper
\* returned, zero included, is what rom_func_lookup returns and what
\* reset_usb_boot invokes; reset_usb_boot never skips the foreign call.
C8_SentinelUnchecked ==
    LET rets  == EventsOf("ret_helper")
        calls == EventsOf("call_target")
    IN  /\ pc = "lookup_ret" => ret = rets[1].a
        /\ (entry = "reset_usb_boot" /\ pc = "call_target") =>
              func_ptr = rets[1].a
        /\ (entry = "reset_usb_boot" /\ pc \in AfterTargetCall) =>
              /\ Len(calls) = 1
              /\ calls[1].addr = rets[1].a

C8_Witness ==
    /\ entry = "reset_usb_boot"
    /\ pc = "in_target"
    /\ FirstMatch(rom.entries, 16981) = 0
    /\ EventsOf("ret_helper")[1].a = Zero32
    /\ EventsOf("call_target")[1].addr = Zero32

\* C9: rom_hword_as_ptr(offset) does one 16-bit load at the address equal to
\* the offset and no store, and returns the halfword stored there
\* zero-extended (a value in 0..0xFFFF, whatever the halfword, 0 included);
\* memory is unchanged.
C9_ReadAndWiden ==
    LET rd == EventsOf("read")
    IN  /\ mem = Layout(rom)
        /\ pc = "read_helper" =>
              /\ Len(rd) = 1
              /\ rd[1].addr = <<0, 20>>
              /\ func_table = <<0, rom.table>>
              /\ func_table[1] = 0 /\ func_table[2] \in 0..65535
        /\ pc = "call_helper" =>
              /\ Len(rd) = 2
              /\ rd[2].addr = <<0, 24>>
              /\ lookup_addr = <<0, rom.helper>>
              /\ lookup_addr[1] = 0 /\ lookup_addr[2] \in 0..65535

C9_Witness ==
    /\ pc = "read_helper"
    /\ rom.table = 0
    /\ func_table = Zero32
    /\ Len(EventsOf("read")) = 1

\* How many events of its own reset_usb_boot has produced at each statement
EventsAt ==
    [s \in {"pack", "read_table", "read_helper", "call_helper", "in_helper",
            "lookup_ret", "call_target", "in_target", "reset", "fault",
            "after_call", "loop"} |->
        CASE s = "pack" -> 0
          [] s = "read_table" -> 1
          [] s = "read_helper" -> 2
          [] s = "call_helper" -> 3
          [] s = "in_helper" -> 4
          [] s \in {"lookup_ret", "call_target"} -> 5
          [] s \in {"in_target", "reset", "fault"} -> 6
          [] OTHER -> 7]

\* C10: every execution of reset_usb_boot is one fixed order of events: the
\* key is packed, the table pointer is loaded at 0x14, the helper pointer at
\* 0x18, the helper (the address loaded at 0x18) is invoked once with (table
\* pointer, key), and only after it has returned is the target invoked, once.
C10_Order ==
    entry = "reset_usb_boot" =>
        LET ev == SysEvents
        IN  /\ pc \in DOMAIN EventsAt
            /\ Len(ev) = EventsAt[pc]
            /\ IsPrefix(Kinds(ev), <<"pack", "read", "read", "call_helper",
                                     "ret_helper", "call_target", "ret_target">>)
            /\ Len(ev) >= 2 => ev[2].addr = <<0, 20>>
            /\ Len(ev) >= 3 => ev[3].addr = <<0, 24>>
            /\ Len(ev) >= 4 =>
                  /\ ev[4].addr = ev[3].a
                  /\ ev[4].a = ev[2].a
                  /\ ev[4].b = ev[1].a
            /\ Len(ev) >= 6 => ev[6].addr = ev[5].a

C10_Witness ==
    /\ entry = "reset_usb_boot"
    /\ pc = "loop"
    /\ Len(SysEvents) = 7
    /\ Len(EventsOf("romread")) = 4

====
